---- MODULE Spec2Model ----
(***************************************************************************)
(* Model of the romaji -> hiragana transliterator of jptyping              *)
(* (src/src/utils/romanize.js) and of the practice session that feeds it   *)
(* (src/src/screens/PracticeScreen.jsx).                                   *)
(*                                                                         *)
(* A JavaScript string is a sequence of characters.  A Latin letter, a     *)
(* digit or the straight apostrophe is the one-character string itself;    *)
(* the curled apostrophe U+2019 is "rsquo"; a hiragana code point is       *)
(* "h:" followed by its Unicode letter name ("h:ka" is HIRAGANA LETTER KA, *)
(* "h:xya" is HIRAGANA LETTER SMALL YA, "h:xtu" the small tsu, "h:n" the   *)
(* moraic nasal).  The scan index i is 0-based as in the source.           *)
(***************************************************************************)
EXTENDS Integers, Sequences, FiniteSets, TLC

VARIABLES input, s, out, i, prevRaw, pc, iterations

\* The practice session (src/src/screens/PracticeScreen.jsx): the React
\* state of the screen, whether a jisho fetch whose result will still be
\* applied is in flight, whether the run has been handed to the results
\* screen, and the locals of onChange when it is the handler that ran last.
VARIABLES words, wIndex, cIndex, errors, started, raw, typedKana,
          testMode, wordTarget, source, remoteWords, fetching, finished, call

\* The running interval of a timed run, with the finishRun its callback
\* closes over: that of the render in which the timer effect created it,
\* given by the payload it sends.  And what has been handed to the results
\* screen.
VARIABLES timer, payload

\* The jisho fetches whose effect has been cleaned up (alive is false):
\* whether one is still in flight, and whether the step before was the
\* arrival of one.
VARIABLES stale

convVars == <<input, s, out, i, prevRaw, pc, iterations>>

sessionVars == <<words, wIndex, cIndex, errors, started, raw, typedKana,
                 testMode, wordTarget, source, remoteWords, fetching,
                 finished, call, timer, payload, stale>>

vars == <<convVars, sessionVars>>

\* Longest string of the exhaustively enumerated inputs.
MaxLen == 3

----------------------------------------------------------------------------
\* The mapping table.

ROMAJI_TO_HIRA ==
    <<"a">> :> <<"h:a">> @@ <<"i">> :> <<"h:i">> @@ <<"u">> :> <<"h:u">> @@
    <<"e">> :> <<"h:e">> @@ <<"o">> :> <<"h:o">> @@
    <<"k", "a">> :> <<"h:ka">> @@ <<"k", "i">> :> <<"h:ki">> @@ <<"k", "u">> :> <<"h:ku">> @@
    <<"k", "e">> :> <<"h:ke">> @@ <<"k", "o">> :> <<"h:ko">> @@
    <<"k", "y", "a">> :> <<"h:ki", "h:xya">> @@ <<"k", "y", "u">> :> <<"h:ki", "h:xyu">> @@ <<"k", "y", "o">> :> <<"h:ki", "h:xyo">> @@
    <<"g", "a">> :> <<"h:ga">> @@ <<"g", "i">> :> <<"h:gi">> @@ <<"g", "u">> :> <<"h:gu">> @@
    <<"g", "e">> :> <<"h:ge">> @@ <<"g", "o">> :> <<"h:go">> @@
    <<"g", "y", "a">> :> <<"h:gi", "h:xya">> @@ <<"g", "y", "u">> :> <<"h:gi", "h:xyu">> @@ <<"g", "y", "o">> :> <<"h:gi", "h:xyo">> @@
    <<"s", "a">> :> <<"h:sa">> @@ <<"s", "h", "i">> :> <<"h:si">> @@ <<"s", "i">> :> <<"h:si">> @@
    <<"s", "u">> :> <<"h:su">> @@ <<"s", "e">> :> <<"h:se">> @@ <<"s", "o">> :> <<"h:so">> @@
    <<"s", "h", "a">> :> <<"h:si", "h:xya">> @@ <<"s", "h", "u">> :> <<"h:si", "h:xyu">> @@ <<"s", "h", "o">> :> <<"h:si", "h:xyo">> @@
    <<"z", "a">> :> <<"h:za">> @@ <<"z", "i">> :> <<"h:zi">> @@ <<"j", "i">> :> <<"h:zi">> @@
    <<"z", "u">> :> <<"h:zu">> @@ <<"z", "e">> :> <<"h:ze">> @@ <<"z", "o">> :> <<"h:zo">> @@
    <<"j", "a">> :> <<"h:zi", "h:xya">> @@ <<"j", "y", "a">> :> <<"h:zi", "h:xya">> @@ <<"j", "u">> :> <<"h:zi", "h:xyu">> @@
    <<"j", "y", "u">> :> <<"h:zi", "h:xyu">> @@ <<"j", "o">> :> <<"h:zi", "h:xyo">> @@ <<"j", "y", "o">> :> <<"h:zi", "h:xyo">> @@
    <<"t", "a">> :> <<"h:ta">> @@ <<"c", "h", "i">> :> <<"h:ti">> @@ <<"t", "i">> :> <<"h:ti">> @@
    <<"t", "s", "u">> :> <<"h:tu">> @@ <<"t", "u">> :> <<"h:tu">> @@ <<"t", "e">> :> <<"h:te">> @@
    <<"t", "o">> :> <<"h:to">> @@
    <<"c", "h", "a">> :> <<"h:ti", "h:xya">> @@ <<"c", "h", "u">> :> <<"h:ti", "h:xyu">> @@ <<"c", "h", "o">> :> <<"h:ti", "h:xyo">> @@
    <<"t", "y", "a">> :> <<"h:ti", "h:xya">> @@ <<"t", "y", "u">> :> <<"h:ti", "h:xyu">> @@ <<"t", "y", "o">> :> <<"h:ti", "h:xyo">> @@
    <<"d", "a">> :> <<"h:da">> @@ <<"d", "i">> :> <<"h:di">> @@ <<"d", "u">> :> <<"h:du">> @@
    <<"d", "e">> :> <<"h:de">> @@ <<"d", "o">> :> <<"h:do">> @@
    <<"d", "y", "a">> :> <<"h:di", "h:xya">> @@ <<"d", "y", "u">> :> <<"h:di", "h:xyu">> @@ <<"d", "y", "o">> :> <<"h:di", "h:xyo">> @@
    <<"n", "a">> :> <<"h:na">> @@ <<"n", "i">> :> <<"h:ni">> @@ <<"n", "u">> :> <<"h:nu">> @@
    <<"n", "e">> :> <<"h:ne">> @@ <<"n", "o">> :> <<"h:no">> @@
    <<"n", "y", "a">> :> <<"h:ni", "h:xya">> @@ <<"n", "y", "u">> :> <<"h:ni", "h:xyu">> @@ <<"n", "y", "o">> :> <<"h:ni", "h:xyo">> @@
    <<"h", "a">> :> <<"h:ha">> @@ <<"h", "i">> :> <<"h:hi">> @@ <<"f", "u">> :> <<"h:hu">> @@
    <<"h", "u">> :> <<"h:hu">> @@ <<"h", "e">> :> <<"h:he">> @@ <<"h", "o">> :> <<"h:ho">> @@
    <<"h", "y", "a">> :> <<"h:hi", "h:xya">> @@ <<"h", "y", "u">> :> <<"h:hi", "h:xyu">> @@ <<"h", "y", "o">> :> <<"h:hi", "h:xyo">> @@
    <<"b", "a">> :> <<"h:ba">> @@ <<"b", "i">> :> <<"h:bi">> @@ <<"b", "u">> :> <<"h:bu">> @@
    <<"b", "e">> :> <<"h:be">> @@ <<"b", "o">> :> <<"h:bo">> @@
    <<"b", "y", "a">> :> <<"h:bi", "h:xya">> @@ <<"b", "y", "u">> :> <<"h:bi", "h:xyu">> @@ <<"b", "y", "o">> :> <<"h:bi", "h:xyo">> @@
    <<"p", "a">> :> <<"h:pa">> @@ <<"p", "i">> :> <<"h:pi">> @@ <<"p", "u">> :> <<"h:pu">> @@
    <<"p", "e">> :> <<"h:pe">> @@ <<"p", "o">> :> <<"h:po">> @@
    <<"p", "y", "a">> :> <<"h:pi", "h:xya">> @@ <<"p", "y", "u">> :> <<"h:pi", "h:xyu">> @@ <<"p", "y", "o">> :> <<"h:pi", "h:xyo">> @@
    <<"m", "a">> :> <<"h:ma">> @@ <<"m", "i">> :> <<"h:mi">> @@ <<"m", "u">> :> <<"h:mu">> @@
    <<"m", "e">> :> <<"h:me">> @@ <<"m", "o">> :> <<"h:mo">> @@
    <<"m", "y", "a">> :> <<"h:mi", "h:xya">> @@ <<"m", "y", "u">> :> <<"h:mi", "h:xyu">> @@ <<"m", "y", "o">> :> <<"h:mi", "h:xyo">> @@
    <<"y", "a">> :> <<"h:ya">> @@ <<"y", "u">> :> <<"h:yu">> @@ <<"y", "o">> :> <<"h:yo">> @@
    <<"r", "a">> :> <<"h:ra">> @@ <<"r", "i">> :> <<"h:ri">> @@ <<"r", "u">> :> <<"h:ru">> @@
    <<"r", "e">> :> <<"h:re">> @@ <<"r", "o">> :> <<"h:ro">> @@
    <<"r", "y", "a">> :> <<"h:ri", "h:xya">> @@ <<"r", "y", "u">> :> <<"h:ri", "h:xyu">> @@ <<"r", "y", "o">> :> <<"h:ri", "h:xyo">> @@
    <<"w", "a">> :> <<"h:wa">> @@ <<"w", "i">> :> <<"h:u", "h:xi">> @@ <<"w", "e">> :> <<"h:u", "h:xe">> @@
    <<"w", "o">> :> <<"h:wo">> @@
    <<"x", "a">> :> <<"h:xa">> @@ <<"x", "i">> :> <<"h:xi">> @@ <<"x", "u">> :> <<"h:xu">> @@
    <<"x", "e">> :> <<"h:xe">> @@ <<"x", "o">> :> <<"h:xo">> @@
    <<"n">> :> <<"h:n">> @@ <<"n", "n">> :> <<"h:n">> @@ <<"n", "'">> :> <<"h:n">> @@
    <<"n", "rsquo">> :> <<"h:n">>

Keys == DOMAIN ROMAJI_TO_HIRA

\* JavaScript's undefined, as the value of a character read past the end.
Undefined == "undefined"

\* ROMAJI_TO_HIRA[k] of the source: the entry, or for a missing key the
\* empty string (undefined and '' are both falsy in the tests "if (tri)").
Lookup(k) == IF k \in Keys THEN ROMAJI_TO_HIRA[k] ELSE <<>>

Truthy(v) == v # <<>>

isVowel(ch) == ch = "a" \/ ch = "i" \/ ch = "u" \/ ch = "e" \/ ch = "o"

----------------------------------------------------------------------------
\* String primitives.

Min(a, b) == IF a < b THEN a ELSE b

\* s[k] of the source (0-based); undefined past the end.
At(str, k) == IF k < Len(str) THEN str[k + 1] ELSE Undefined

\* s[k] || ''
AtOrEmpty(str, k) == IF k < Len(str) THEN str[k + 1] ELSE ""

\* s.substr(k, n): at most n characters from k, fewer at the end.
substr(str, k, n) == SubSeq(str, k + 1, Min(k + n, Len(str)))

\* The upper-case letters of the model.  "Idot" is U+0130, LATIN CAPITAL
\* LETTER I WITH DOT ABOVE, whose lower-case form is the two code units
\* U+0069 U+0307: i and the combining dot above, "dot".
UpperCase == {"A", "K", "N", "Idot"}

\* The lower-case form of one character, a string.
lowerCaseOf(c) ==
    CASE c = "A" -> <<"a">>
      [] c = "K" -> <<"k">>
      [] c = "N" -> <<"n">>
      [] c = "Idot" -> <<"i", "dot">>
      [] OTHER -> <<c>>

\* The input scanned as it is typed, in its own case.
toLowerCaseSkipped(str) == str

\* String.prototype.toLowerCase
RECURSIVE toLowerCase(_)
toLowerCase(str) ==
    IF str = <<>> THEN <<>>
    ELSE lowerCaseOf(Head(str)) \o toLowerCase(Tail(str))

\* A null or undefined argument.
NullArg == <<"#null">>

\* (input || ''): null, undefined and the empty string give ''.
OrEmpty(arg) == IF arg = NullArg \/ arg = <<>> THEN <<>> ELSE arg

----------------------------------------------------------------------------
\* The rules of one loop iteration, at scan index k of str with prev the
\* previously consumed raw character.

HiraN == "h:n"
SmallTsu == "h:xtu"

\* Mutant: the curled apostrophe is forgotten.
ExplicitNStraightOnly(str, k) ==
    At(str, k) = "n" /\ AtOrEmpty(str, k + 1) = "'"

\* ch === 'n' && (ch2 === "'" || ch2 === curled apostrophe)
ExplicitN(str, k) ==
    At(str, k) = "n" /\ AtOrEmpty(str, k + 1) \in {"'", "rsquo"}

\* ch === 'n' && ch2 === 'y' && isVowel(ch3) && isVowel(prevRaw)
\* Mutant: the disambiguation is left out and the table decides.
DisambiguateNever(str, k, prev) == FALSE

Disambiguate(str, k, prev) ==
    /\ At(str, k) = "n"
    /\ AtOrEmpty(str, k + 1) = "y"
    /\ isVowel(AtOrEmpty(str, k + 2))
    /\ isVowel(prev)

\* Mutant: the exception for 'nn' is forgotten.
SokuonIncludingN(str, k) ==
    /\ k + 1 < Len(str)
    /\ At(str, k) = At(str, k + 1)
    /\ ~isVowel(At(str, k))

\* Mutant: the negation of isVowel is dropped.
SokuonOfVowels(str, k) ==
    /\ k + 1 < Len(str)
    /\ At(str, k) = At(str, k + 1)
    /\ isVowel(At(str, k))
    /\ At(str, k) # "n"

\* i + 1 < s.length && s[i] === s[i + 1] && !isVowel(ch) && ch !== 'n'
Sokuon(str, k) ==
    /\ k + 1 < Len(str)
    /\ At(str, k) = At(str, k + 1)
    /\ ~isVowel(At(str, k))
    /\ At(str, k) # "n"

\* Mutant: the three-character lookup reads two characters.
triTwoChars(str, k) == Lookup(substr(str, k, 2))

tri(str, k) == Lookup(substr(str, k, 3))

bi(str, k) == Lookup(substr(str, k, 2))

nextMakesSyllable(str, k) ==
    \/ isVowel(AtOrEmpty(str, k + 1))
    \/ (AtOrEmpty(str, k + 1) = "y" /\ isVowel(AtOrEmpty(str, k + 2)))

StandaloneN(str, k) == At(str, k) = "n" /\ ~nextMakesSyllable(str, k)

uni(str, k) == Lookup(<<At(str, k)>>)

\* The body of the while loop: the rule that fires (the first whose test
\* succeeds), what it appends to out, the new prevRaw and the increment
\* of i.
LoopBody(str, k, prev) ==
    IF ExplicitN(str, k) THEN
        [rule |-> "explicitN", emit |-> <<HiraN>>,
         prev |-> AtOrEmpty(str, k + 1), adv |-> 2]
    ELSE IF Disambiguate(str, k, prev) THEN
        [rule |-> "disambiguate", emit |-> <<HiraN>>, prev |-> "n", adv |-> 1]
    ELSE IF Sokuon(str, k) THEN
        [rule |-> "sokuon", emit |-> <<SmallTsu>>, prev |-> At(str, k), adv |-> 1]
    ELSE IF Truthy(tri(str, k)) THEN
        [rule |-> "tri", emit |-> tri(str, k), prev |-> At(str, k + 2), adv |-> 3]
    ELSE IF Truthy(bi(str, k)) THEN
        [rule |-> "bi", emit |-> bi(str, k), prev |-> At(str, k + 1), adv |-> 2]
    ELSE IF StandaloneN(str, k) THEN
        [rule |-> "standaloneN", emit |-> <<HiraN>>, prev |-> "n", adv |-> 1]
    ELSE IF Truthy(uni(str, k)) THEN
        [rule |-> "uni", emit |-> uni(str, k), prev |-> At(str, k), adv |-> 1]
    ELSE
        [rule |-> "passthrough", emit |-> <<At(str, k)>>,
         prev |-> At(str, k), adv |-> 1]

\* Mutant: an n that ends the buffer is withheld (nothing is emitted).
StepWithholdTrailingN(str, k, prev) ==
    IF At(str, k) = "n" /\ k + 1 = Len(str)
    THEN [rule |-> "standaloneN", emit |-> <<>>, prev |-> "n", adv |-> 1]
    ELSE LoopBody(str, k, prev)

\* Mutant: an unknown character is dropped instead of passed through.
StepDropUnknown(str, k, prev) ==
    IF LoopBody(str, k, prev).rule = "passthrough"
    THEN [LoopBody(str, k, prev) EXCEPT !.emit = <<>>]
    ELSE LoopBody(str, k, prev)

\* Mutant: the standalone-n rule consumes two characters, as n' does.
StepNasalConsumesTwo(str, k, prev) ==
    IF LoopBody(str, k, prev).rule = "standaloneN"
    THEN [LoopBody(str, k, prev) EXCEPT !.adv = 2]
    ELSE LoopBody(str, k, prev)

\* Mutant: the disambiguation rule forgets i += 1.
StepDisambiguateStays(str, k, prev) ==
    IF LoopBody(str, k, prev).rule = "disambiguate"
    THEN [LoopBody(str, k, prev) EXCEPT !.adv = 0]
    ELSE LoopBody(str, k, prev)

\* One iteration of the while loop.
Step(str, k, prev) == LoopBody(str, k, prev)

\* The while loop from index k on: what it appends to out.
RECURSIVE scan(_, _, _)
scan(str, k, prev) ==
    IF k >= Len(str) THEN <<>>
    ELSE LET st == Step(str, k, prev)
         IN  st.emit \o scan(str, k + st.adv, st.prev)

\* The function as a whole.
romajiToHiragana(arg) == scan(toLowerCase(OrEmpty(arg)), 0, "")

----------------------------------------------------------------------------
\* The inputs of the model.

Vowels == {"a", "i", "u", "e", "o"}

Consonants ==
    {"b", "c", "d", "f", "g", "h", "j", "k", "l", "m", "n",
     "p", "q", "r", "s", "t", "v", "w", "x", "y", "z"}

Apostrophes == {"'", "rsquo"}

\* Characters outside the Latin-letter/apostrophe alphabet: two hiragana,
\* a digit.
OtherChars == {"h:a", "h:ka", "1"}

\* The characters of the exhaustively enumerated inputs.
Alphabet ==
    {"a", "o", "k", "n", "y", "s", "h", "c", "q"}
        \cup Apostrophes \cup UpperCase \cup OtherChars

Strings(n) == UNION {[1..m -> Alphabet] : m \in 0..n}

gakkou == <<"g", "a", "k", "k", "o", "u">>
konApostropheI == <<"k", "o", "n", "'", "i">>
konCurledI == <<"k", "o", "n", "rsquo", "i">>
koni == <<"k", "o", "n", "i">>
kinyou == <<"k", "i", "n", "y", "o", "u">>
kaka == <<"k", "a", "k", "a">>
anya == <<"a", "n", "y", "a">>
nyi == <<"n", "y", "i">>
anyi == <<"a", "n", "y", "i">>
anyu == <<"a", "n", "y", "u">>
knyu == <<"k", "n", "y", "u">>
cho == <<"c", "h", "o">>
kon == <<"k", "o", "n">>
kak == <<"k", "a", "k">>

Examples ==
    {gakkou, konApostropheI, konCurledI, koni, kinyou, kaka, anya, nyi,
     cho, kon, kak, anyi, anyu, knyu}

\* A doubled consonant in front of each table key.
SokuonInputs ==
    {<<key[1]>> \o key : key \in {q \in Keys : q[1] \in Consonants \ {"n"}}}

\* n, any consonant, and a rest.
NasalInputs ==
    {<<"n", c>> \o rest : c \in Consonants, rest \in Strings(MaxLen - 2)}

Inputs ==
    Strings(MaxLen) \cup Keys \cup Examples \cup SokuonInputs
        \cup NasalInputs \cup {NullArg}

----------------------------------------------------------------------------
\* The call as a state machine: pc is "call" before the first statement,
\* "loop" at the head of the while loop, "done" after the return.

\* No interval is running; nothing has been handed to the results screen.
NoTimer == [running |-> FALSE]

NoPayload == [sent |-> FALSE]

\* No fetch has been abandoned.
NoStale == [inFlight |-> FALSE, discarded |-> FALSE]

\* The locals of onChange before its first call.
NoCall ==
    [made |-> FALSE, text |-> <<>>, capped |-> <<>>, handed |-> <<>>,
     kana |-> <<>>,
     target |-> <<>>, matched |-> 0, prev |-> 0,
     miss |-> FALSE, completed |-> FALSE]

\* A call of the function on its own: no practice screen is mounted.
NoSession ==
    /\ words = <<>>
    /\ wIndex = 0
    /\ cIndex = 0
    /\ errors = 0
    /\ started = FALSE
    /\ raw = <<>>
    /\ typedKana = <<>>
    /\ testMode = "words"
    /\ wordTarget = 0
    /\ source = "local"
    /\ remoteWords = <<>>
    /\ fetching = FALSE
    /\ finished = TRUE
    /\ call = NoCall
    /\ timer = NoTimer
    /\ payload = NoPayload
    /\ stale = NoStale

Init ==
    /\ input \in Inputs
    /\ s = <<>>
    /\ out = <<>>
    /\ i = 0
    /\ prevRaw = ""
    /\ pc = "call"
    /\ iterations = 0
    /\ NoSession

Enter ==
    /\ pc = "call"
    /\ s' = toLowerCase(OrEmpty(input))
    /\ out' = <<>>
    /\ i' = 0
    /\ prevRaw' = ""
    /\ pc' = "loop"
    /\ UNCHANGED <<input, iterations>>
    /\ UNCHANGED sessionVars

\* The loop test, and the rule that fires in this iteration.
InLoop == pc = "loop" /\ i < Len(s)

Rule == Step(s, i, prevRaw).rule

\* The assignments of the iteration: out += ..., prevRaw = ..., i += ...
Iterate ==
    /\ out' = out \o Step(s, i, prevRaw).emit
    /\ prevRaw' = Step(s, i, prevRaw).prev
    /\ i' = i + Step(s, i, prevRaw).adv
    /\ iterations' = iterations + 1
    /\ UNCHANGED <<input, s, pc>>
    /\ UNCHANGED sessionVars

ExplicitNStep ==
    /\ InLoop
    /\ Rule = "explicitN"
    /\ Iterate

DisambiguateStep ==
    /\ InLoop
    /\ Rule = "disambiguate"
    /\ Iterate

SokuonStep ==
    /\ InLoop
    /\ Rule = "sokuon"
    /\ Iterate

TriStep ==
    /\ InLoop
    /\ Rule = "tri"
    /\ Iterate

BiStep ==
    /\ InLoop
    /\ Rule = "bi"
    /\ Iterate

StandaloneNStep ==
    /\ InLoop
    /\ Rule = "standaloneN"
    /\ Iterate

UniStep ==
    /\ InLoop
    /\ Rule = "uni"
    /\ Iterate

PassthroughStep ==
    /\ InLoop
    /\ Rule = "passthrough"
    /\ Iterate

Return ==
    /\ pc = "loop"
    /\ i >= Len(s)
    /\ pc' = "done"
    /\ UNCHANGED <<input, s, out, i, prevRaw, iterations>>
    /\ UNCHANGED sessionVars

Next ==
    \/ Enter
    \/ ExplicitNStep
    \/ DisambiguateStep
    \/ SokuonStep
    \/ TriStep
    \/ BiStep
    \/ StandaloneNStep
    \/ UniStep
    \/ PassthroughStep
    \/ Return

Spec == Init /\ [][Next]_vars

\* The same, with the loop and the return always taken: the call is
\* synchronous and nothing suspends it.
FairSpec == Init /\ [][Next]_vars /\ WF_vars(Next)

TypeOK ==
    /\ pc \in {"call", "loop", "done"}
    /\ i \in 0..(Len(s) + 2)
    /\ iterations \in 0..Len(s)

\* The state machine computes the function.
MachineIsFunction == pc = "done" => out = romajiToHiragana(input)

----------------------------------------------------------------------------
\* Properties of romajiToHiragana.

\* Characters of the input consumed by the iteration now taken (an
\* iteration that matches the last characters of s with "i += 3" leaves i
\* past the end).
Consumed == Min(i', Len(s)) - i

\* The table keys that are a literal prefix of str from index k on.
KeyPrefixes(str, k) ==
    {key \in Keys : substr(str, k, Len(key)) = key}

LongestKeyPrefix(str, k) ==
    CHOOSE key \in KeyPrefixes(str, k) :
        \A other \in KeyPrefixes(str, k) : Len(other) <= Len(key)

\* C1. Exact match: for every key of the mapping table, the conversion of
\* the key typed on its own is exactly the kana of that key.
ExactMatch ==
    (pc = "done" /\ input \in Keys) => out = ROMAJI_TO_HIRA[input]

\* The keys n' and nn, which the n rules and the sokuon rule could
\* pre-empt, have been converted to the moraic nasal.
ExactMatchWitness ==
    /\ pc = "done"
    /\ input \in {<<"n", "'">>, <<"n", "n">>, <<"n", "rsquo">>}
    /\ out = <<"h:n">>

\* C2. Idempotence: converting the output of a conversion returns it
\* unchanged.
Idempotence == pc = "done" => romajiToHiragana(out) = out

SokuonDoubling ==
    /\ (pc = "done" /\ Len(input) >= 2 /\ input[1] \in Consonants \ {"n"}
          /\ Tail(input) \in Keys /\ input[2] = input[1])
          => out = <<"h:xtu">> \o ROMAJI_TO_HIRA[Tail(input)]
    /\ (pc = "done" /\ input = gakkou)
          => out = <<"h:ga", "h:xtu", "h:ko", "h:u">>

SokuonDoublingWitness ==
    /\ pc = "done"
    /\ input = gakkou
    /\ out = <<"h:ga", "h:xtu", "h:ko", "h:u">>

\* C5. Explicit nasal termination: wherever the scan meets n followed by a
\* straight or curled apostrophe it emits the moraic nasal and consumes
\* both characters; kon'i gives ko, n, i and koni gives ko, ni.
ExplicitNasal ==
    /\ [][(InLoop /\ At(s, i) = "n" /\ AtOrEmpty(s, i + 1) \in Apostrophes)
            => (out' = out \o <<"h:n">> /\ i' = i + 2)]_vars
    /\ [](pc = "done" =>
            /\ input \in {konApostropheI, konCurledI}
                 => out = <<"h:ko", "h:n", "h:i">>
            /\ input = koni => out = <<"h:ko", "h:ni">>)

ExplicitNasalWitness ==
    /\ pc = "done"
    /\ input = konCurledI
    /\ out = <<"h:ko", "h:n", "h:i">>

\* The scan is at an n that ends the buffer.
AtTrailingN == InLoop /\ At(s, i) = "n" /\ i + 1 = Len(s)

\* C6 as stated. A standalone n that ends the buffer is withheld: the
\* iteration that meets it emits nothing.
TrailingNWithheld == [][AtTrailingN => out' = out]_vars

\* C6 as amended. A standalone n that ends the buffer is not withheld: the
\* iteration that meets it emits the moraic nasal; n gives the nasal alone
\* and kon gives ko, n.
TrailingNEmitted ==
    /\ [][AtTrailingN => out' = out \o <<"h:n">>]_vars
    /\ [](pc = "done" =>
            /\ input = <<"n">> => out = <<"h:n">>
            /\ input = kon => out = <<"h:ko", "h:n">>)

TrailingNEmittedWitness ==
    /\ pc = "done"
    /\ input = kon
    /\ out = <<"h:ko", "h:n">>

\* The strict prefixes of the table keys that are not keys themselves.
StrictPrefixes ==
    UNION {{SubSeq(key, 1, m) : m \in 1..(Len(key) - 1)} : key \in Keys}
        \ Keys

\* The scan is at a tail that could still grow into a key and is none.
AtAmbiguousTail == InLoop /\ substr(s, i, Len(s) - i) \in StrictPrefixes

\* C7 as stated. Ambiguous prefix: at a tail that is a strict prefix of a
\* key and no key itself the scan emits nothing.
AmbiguousTailWithheld == [][AtAmbiguousTail => out' = out]_vars

\* C7 as amended. At such a tail the scan goes on: the iteration consumes
\* one character and emits it, unchanged if it is not n and as the moraic
\* nasal if it is (the n of a tail ny); k gives k and kak gives ka, k.
AmbiguousTailEmitted ==
    /\ [][AtAmbiguousTail =>
            /\ i' = i + 1
            /\ out' = out \o <<IF At(s, i) = "n" THEN "h:n" ELSE At(s, i)>>]_vars
    /\ [](pc = "done" =>
            /\ input = <<"k">> => out = <<"k">>
            /\ input = kak => out = <<"h:ka", "k">>)

AmbiguousTailEmittedWitness ==
    /\ pc = "done"
    /\ input = kak
    /\ out = <<"h:ka", "k">>

\* C8. Resolved n: n in front of a consonant other than n and y gives the
\* moraic nasal followed by the conversion of the rest from that consonant
\* on; nk gives the nasal and k.
ResolvedN ==
    /\ (pc = "done" /\ Len(input) >= 2 /\ input[1] = "n"
          /\ input[2] \in Consonants \ {"n", "y"})
          => out = <<"h:n">> \o romajiToHiragana(Tail(input))
    /\ (pc = "done" /\ input = <<"n", "k">>) => out = <<"h:n", "k">>

ResolvedNWitness ==
    /\ pc = "done"
    /\ input = <<"n", "k", "a">>
    /\ out = <<"h:n", "h:ka">>

IsOne(c) == c = "1"

\* C9. Passthrough: a character outside the Latin-letter/apostrophe
\* alphabet appears unchanged in the output whatever its neighbours (the
\* digits of the output are those of the input, in order), and an input
\* made only of such characters is returned unchanged.
PassthroughVerbatim ==
    (pc = "done" /\ input # NullArg) =>
        /\ SelectSeq(out, IsOne) = SelectSeq(input, IsOne)
        /\ (\A k \in 1..Len(input) : input[k] \in OtherChars) => out = input

\* C10 as stated, the bound on the iterations: the loop runs at most
\* len(input) times.
IterationsWithinInput == iterations <= Len(OrEmpty(input))

\* All the characters of the model.
Chars ==
    Vowels \cup Consonants \cup Apostrophes \cup UpperCase \cup OtherChars
        \cup {"dot", "h:xtu"}
        \cup UNION {{ROMAJI_TO_HIRA[key][k] :
                       k \in 1..Len(ROMAJI_TO_HIRA[key])} : key \in Keys}

\* C10 as amended. Totality and termination: every call reaches its
\* return with a string (the empty string for a null, undefined or empty
\* argument); every iteration advances i by at least 1 and at most 3, and
\* the loop runs at most len(s) times, s being the lower-cased input.
Terminates ==
    /\ [][InLoop => (i' \in (i + 1)..(i + 3)
                       /\ iterations' = iterations + 1)]_vars
    /\ [](iterations <= Len(s))
    /\ [](pc = "done" =>
            /\ out \in Seq(Chars)
            /\ input \in {NullArg, <<>>} => out = <<>>)
    /\ <>(pc = "done")

\* The six characters of gakkou have been converted in four iterations,
\* the last of which left i past the end.
TerminatesWitness ==
    /\ pc = "done"
    /\ input = gakkou
    /\ iterations = 4
    /\ i > Len(s)

(***************************************************************************)
(* The practice session of src/src/screens/PracticeScreen.jsx.             *)
(*                                                                         *)
(* A word is represented by its reading, a string of UTF-16 code units.    *)
(* A code point outside the Basic Multilingual Plane is the pair of its    *)
(* surrogates: "D82C" "DC01" is U+1B001 HIRAGANA LETTER ARCHAIC YE and     *)
(* "D82C" "DC00" is U+1B000 KATAKANA LETTER ARCHAIC E.                     *)
(***************************************************************************)

INPUT_LIMIT_MULTIPLIER == 4

\* Readings of the words.
Ka == <<"h:ka">>
EmptyReading == <<>>
ArchaicYeKa == <<"D82C", "DC01", "h:ka">>
Gakkou == <<"h:ga", "h:xtu", "h:ko", "h:u">>

\* lesson.items of the loaded set: getSet turns a missing reading into ''.
LessonItems == <<Ka, EmptyReading>>

\* What fetchRandomJishoWords can resolve to: words with a non-empty
\* reading, possibly none at all.
JishoResults == {<<>>, <<Gakkou, ArchaicYeKa>>}

\* useState(null) of remoteWords.
Null == <<<<"#null">>>>

IsArray(v) == v # Null

\* wordTarget: the pills offer finite run lengths and Infinity; the finite
\* lengths are scaled to the size of the word lists of the model.
ShortRun == 1

Infinity == -1

IsFinite(n) == n # Infinity

WordTargets == {ShortRun, Infinity}

Max(a, b) == IF a >= b THEN a ELSE b

\* const wordPool = source === 'jisho' && Array.isArray(remoteWords) &&
\*     remoteWords.length ? remoteWords : lesson.items
UsesRemote(src, rw) == src = "jisho" /\ IsArray(rw) /\ Len(rw) > 0

wordPool(src, rw) == IF UsesRemote(src, rw) THEN rw ELSE LessonItems

\* The shuffle of useMemo: any order of the pool.
Shuffles(pool) ==
    {w \in [1..Len(pool) -> {pool[k] : k \in 1..Len(pool)}] :
        \A k \in 1..Len(pool) : \E j \in 1..Len(pool) : w[j] = pool[k]}

\* const currentWord = words[wIndex] ?? words[0];
\* const currentTarget = currentWord?.reading || ''
TargetOf(ws, w) ==
    IF w < Len(ws) THEN ws[w + 1]
    ELSE IF Len(ws) > 0 THEN ws[1]
    ELSE <<>>

currentTarget == TargetOf(words, wIndex)

slice(str, n) == SubSeq(str, 1, Min(Len(str), n))

\* while (i < n && a[i] === b[i]) i++
RECURSIVE lcpLoop(_, _, _)
lcpLoop(a, b, k) ==
    IF k < Min(Len(a), Len(b)) /\ a[k + 1] = b[k + 1]
    THEN lcpLoop(a, b, k + 1)
    ELSE k

\* The loop without its comparison: the length of the shorter string.
lcpShorterLength(a, b) == Min(Len(a), Len(b))

lcp(a, b) == lcpLoop(a, b, 0)

\* Math.max(1, targetLen * INPUT_LIMIT_MULTIPLIER)
maxRaw(target) == Max(1, Len(target) * INPUT_LIMIT_MULTIPLIER)

\* The completion test on the matched length instead of on equality.
CompletesOnFullMatch(kana, target) ==
    Len(target) > 0 /\ lcp(kana, target) = Len(target)

\* The completion test without its second operand.
CompletesAnyTarget(kana, target) == kana = target

\* if (kana === currentTarget && currentTarget.length > 0)
Completes(kana, target) == kana = target /\ Len(target) > 0

\* The conversion applied to the text as it arrived, before the cap.
ConvertedUncapped(text, target) == text

\* The text the conversion is applied to.
Converted(text, target) == slice(text, maxRaw(target))

\* Mutant: the error test without its comparison of the kana length.
missIgnoringKanaLength(capped, kana, matched) ==
    Len(capped) > Len(raw) /\ matched <= cIndex

\* if (text.length > raw.length && matched <= prev && kana.length >= prev)
\* with prev = cIndex
miss(capped, kana, matched) ==
    Len(capped) > Len(raw) /\ matched <= cIndex /\ Len(kana) >= cIndex

\* The locals of one onChange call, as the handler computes them.
onChangeLocals(text, target) ==
    LET capped == slice(text, maxRaw(target))
        kana == romajiToHiragana(Converted(text, target))
        matched == lcp(kana, target)
    IN [made |-> TRUE,
        text |-> text,
        capped |-> capped,
        handed |-> Converted(text, target),
        kana |-> kana,
        target |-> target,
        matched |-> matched,
        prev |-> cIndex,
        miss |-> miss(capped, kana, matched),
        completed |-> Completes(kana, target)]

(***************************************************************************)
(* What the text input can hand to onChange: the buffer with a character   *)
(* appended or inserted in front, with its last character or everything    *)
(* deleted, or replaced by pasted text.                                    *)
(***************************************************************************)
MaxText == 3

MaxErrors == 1

TypeChars == {"k", "a"}

LongPaste == [k \in 1..(Len(Gakkou) * INPUT_LIMIT_MULTIPLIER + 1) |-> "k"]

Pastes ==
    {LongPaste,
     <<"k", "a", "a">>,
     <<"K", "A">>,
     <<"g", "a", "k", "k", "o", "u">>,
     <<"h:ka">>,
     Gakkou,
     <<"h:ga", "h:xtu">>,
     <<"h:ga", "h:tu">>,
     <<"t", "s", "u">>,
     ArchaicYeKa,
     <<"D82C", "DC00">>,
     <<"D82C", "DC01", "k">>}

Typed(r) ==
    IF Len(r) < MaxText
    THEN {r \o <<c>> : c \in TypeChars} \cup {<<c>> \o r : c \in TypeChars}
    ELSE {}

Deleted(r) == IF Len(r) > 0 THEN {SubSeq(r, 1, Len(r) - 1), <<>>} ELSE {}

Edits(r) == Typed(r) \cup Deleted(r) \cup Pastes

\* The screen as it is first rendered.
SessionInit ==
    /\ words \in Shuffles(LessonItems)
    /\ wIndex = 0
    /\ cIndex = 0
    /\ errors = 0
    /\ started = FALSE
    /\ raw = <<>>
    /\ typedKana = <<>>
    /\ testMode = "words"
    /\ wordTarget = ShortRun
    /\ source = "local"
    /\ remoteWords = Null
    /\ fetching = FALSE
    /\ finished = FALSE
    /\ call = NoCall
    /\ timer = NoTimer
    /\ payload = NoPayload
    /\ stale = NoStale
    /\ input = NullArg
    /\ s = <<>>
    /\ out = <<>>
    /\ i = 0
    /\ prevRaw = ""
    /\ pc = "done"
    /\ iterations = 0

\* Mutant: the run ends with the word list only, whatever wordTarget is.
EndsRunAtListEnd == ~(wIndex < Len(words) - 1)

\* Whether the completed word ends the run: the tests of onChange that lead
\* to finishRun().
EndsRun ==
    \/ /\ testMode = "words"
       /\ \/ IsFinite(wordTarget) /\ wIndex + 1 >= wordTarget
          \/ wIndex + 1 >= Len(words)
    \/ ~(wIndex < Len(words) - 1)

\* finishRun, called in a render whose wIndex, cIndex, typedKana and
\* currentTarget are the given values.  Of wpm the payload keeps the word
\* index and the matched count it is computed from.
finishRun(w, c, kana, target) ==
    [sent |-> TRUE,
     wIndex |-> w,
     cIndex |-> c,
     completedWords |-> w + (IF kana = target /\ target # <<>> THEN 1 ELSE 0)]

\* Mutant: the word after the next one.
advanceByTwo(w) == w + 2

\* setWIndex(wIndex + 1)
advance(w) == w + 1

\* The cleanup of the prefetch effect, alive = false: a fetch in flight is
\* abandoned.
Abandon == [inFlight |-> (stale.inFlight \/ fetching), discarded |-> FALSE]

\* The prefetch effect is not run again.
Keep == [inFlight |-> stale.inFlight, discarded |-> FALSE]

\* onChange(text)
OnChange(text) ==
    /\ ~finished
    /\ call' = onChangeLocals(text, currentTarget)
    /\ started' = (started \/ Len(text) > 0)
    /\ errors' = IF call'.miss THEN errors + 1 ELSE errors
    /\ errors' <= MaxErrors
    /\ IF call'.completed
       THEN /\ raw' = <<>>
            /\ typedKana' = <<>>
            /\ cIndex' = 0
            /\ finished' = EndsRun
            /\ wIndex' = IF EndsRun THEN wIndex ELSE advance(wIndex)
       ELSE /\ raw' = call'.capped
            /\ typedKana' = call'.kana
            /\ cIndex' = call'.matched
            /\ UNCHANGED <<wIndex, finished>>
    /\ payload' = IF finished'
                  THEN finishRun(wIndex, cIndex, typedKana, currentTarget)
                  ELSE payload
    /\ timer' = IF finished' THEN NoTimer
                ELSE IF ~started /\ started' /\ testMode = "time"
                     THEN [running |-> TRUE,
                           finishRun |->
                               finishRun(wIndex', cIndex', typedKana',
                                         TargetOf(words, wIndex'))]
                     ELSE timer
    /\ fetching' = (fetching /\ ~finished')
    /\ stale' = IF finished' THEN Abandon ELSE Keep
    /\ UNCHANGED <<words, testMode, wordTarget, source, remoteWords>>
    /\ UNCHANGED convVars

Change == \E text \in Edits(raw) : OnChange(text)

\* The state updates of hardReset.
hardReset ==
    /\ wIndex' = 0
    /\ cIndex' = 0
    /\ raw' = <<>>
    /\ typedKana' = <<>>
    /\ errors' = 0
    /\ started' = FALSE
    /\ timer' = NoTimer

\* The reset button: hardReset(true), whose new seed reshuffles the words
\* and restarts the jisho prefetch.
PressReset ==
    /\ ~finished
    /\ hardReset
    /\ words' \in Shuffles(wordPool(source, remoteWords))
    /\ fetching' = (source = "jisho")
    /\ call' = NoCall
    /\ stale' = Abandon
    /\ UNCHANGED <<testMode, wordTarget, source, remoteWords, finished, payload>>
    /\ UNCHANGED convVars

\* A mode pill, which acts when the other mode is on:
\* hardReset(false); setTestMode(m)
SelectTestMode ==
    /\ ~finished
    /\ hardReset
    /\ testMode' = IF testMode = "time" THEN "words" ELSE "time"
    /\ call' = NoCall
    /\ stale' = Keep
    /\ UNCHANGED <<words, wordTarget, source, remoteWords, fetching, finished, payload>>
    /\ UNCHANGED convVars

\* A duration pill, shown in time mode: hardReset(false); setDurationSec(n).
\* The duration itself only sets the moment of TimeUp.
SelectDuration ==
    /\ ~finished
    /\ testMode = "time"
    /\ hardReset
    /\ call' = NoCall
    /\ stale' = Keep
    /\ UNCHANGED <<words, testMode, wordTarget, source, remoteWords, fetching,
                   finished, payload>>
    /\ UNCHANGED convVars

\* A word-count pill, shown in words mode: hardReset(false); setWordTarget(n).  A changed
\* wordTarget restarts the prefetch effect.
SelectWordTarget ==
    /\ ~finished
    /\ testMode = "words"
    /\ hardReset
    /\ wordTarget' \in WordTargets
    /\ fetching' = IF wordTarget' # wordTarget THEN source = "jisho" ELSE fetching
    /\ call' = NoCall
    /\ stale' = IF wordTarget' # wordTarget THEN Abandon ELSE Keep
    /\ UNCHANGED <<words, testMode, source, remoteWords, finished, payload>>
    /\ UNCHANGED convVars

\* The local pill: setSource('local'); hardReset(false)
SelectLocal ==
    /\ ~finished
    /\ hardReset
    /\ source' = "local"
    /\ IF UsesRemote(source, remoteWords)
       THEN words' \in Shuffles(LessonItems)
       ELSE words' = words
    /\ fetching' = FALSE
    /\ call' = NoCall
    /\ stale' = Abandon
    /\ UNCHANGED <<testMode, wordTarget, remoteWords, finished, payload>>
    /\ UNCHANGED convVars

\* The jisho pill: setSource('jisho'); hardReset(true)
SelectJisho ==
    /\ ~finished
    /\ hardReset
    /\ source' = "jisho"
    /\ words' \in Shuffles(wordPool("jisho", remoteWords))
    /\ fetching' = TRUE
    /\ call' = NoCall
    /\ stale' = Abandon
    /\ UNCHANGED <<testMode, wordTarget, remoteWords, finished, payload>>
    /\ UNCHANGED convVars

\* Mutant: the result is written whether or not the effect is alive.
WritesAlways(alive) == TRUE

\* if (alive) { setRemoteWords(got); ... }
Writes(alive) == alive

\* The continuation of a fetch after its await, with what it got: it writes
\* remoteWords when it may, which changes the word list when the pool
\* changes.  Nothing else of the session is touched.
Resolve(alive, got) ==
    IF Writes(alive)
    THEN /\ remoteWords' = got
         /\ IF UsesRemote(source, got) \/ UsesRemote(source, remoteWords)
            THEN words' \in Shuffles(wordPool(source, got))
            ELSE words' = words
    ELSE UNCHANGED <<remoteWords, words>>

\* The prefetch resolves while its effect is alive.
FetchResolves ==
    /\ fetching
    /\ ~finished
    /\ \E got \in JishoResults : Resolve(TRUE, got)
    /\ fetching' = FALSE
    /\ call' = NoCall
    /\ stale' = Keep
    /\ UNCHANGED <<wIndex, cIndex, errors, started, raw, typedKana, testMode,
                   wordTarget, source, finished, timer, payload>>
    /\ UNCHANGED convVars

\* An abandoned fetch resolves, also after the screen is gone; others may
\* still be in flight.
StaleFetchResolves ==
    /\ stale.inFlight
    /\ \E got \in JishoResults : Resolve(FALSE, got)
    /\ \E more \in BOOLEAN : stale' = [inFlight |-> more, discarded |-> TRUE]
    /\ call' = NoCall
    /\ UNCHANGED <<wIndex, cIndex, errors, started, raw, typedKana, testMode,
                   wordTarget, source, fetching, finished, timer, payload>>
    /\ UNCHANGED convVars

\* The timer tick that finds the end of a timed run: the callback of the
\* interval calls the finishRun of the render that created it.
TimeUp ==
    /\ ~finished
    /\ testMode = "time"
    /\ started
    /\ timer.running
    /\ finished' = TRUE
    /\ payload' = timer.finishRun
    /\ timer' = NoTimer
    /\ fetching' = FALSE
    /\ call' = NoCall
    /\ stale' = Abandon
    /\ UNCHANGED <<words, wIndex, cIndex, errors, started, raw, typedKana,
                   testMode, wordTarget, source, remoteWords>>
    /\ UNCHANGED convVars

SessionNext ==
    \/ Change
    \/ PressReset
    \/ SelectTestMode
    \/ SelectDuration
    \/ SelectWordTarget
    \/ SelectLocal
    \/ SelectJisho
    \/ FetchResolves
    \/ StaleFetchResolves
    \/ TimeUp

SessionSpec == SessionInit /\ [][SessionNext]_vars

SessionTypeOK ==
    /\ wIndex \in 0..Max(Len(LessonItems), ShortRun + 1)
    /\ cIndex \in 0..Len(Gakkou)
    /\ errors \in 0..MaxErrors
    /\ testMode \in {"time", "words"}
    /\ source \in {"local", "jisho"}
    /\ wordTarget \in WordTargets
    /\ fetching => source = "jisho"

(***************************************************************************)
(* Claims about the practice session and the matcher.                      *)
(***************************************************************************)

\* C11. History independence: in every state of the session, whatever
\* edits, completions, resets and fetches led to it, the displayed
\* typedKana is the conversion of the stored raw buffer.
HistoryIndependence == typedKana = romajiToHiragana(raw)

\* A paste longer than the cap has been cut and is displayed converted.
HistoryIndependenceWitness ==
    /\ call.made
    /\ call.text # call.capped
    /\ raw = call.capped
    /\ Len(raw) > 1
    /\ typedKana # <<>>

\* The largest k with typed[0..k) == target[0..k).
LargestCommonPrefix(typed, target) ==
    CHOOSE k \in 0..Min(Len(typed), Len(target)) :
        /\ SubSeq(typed, 1, k) = SubSeq(target, 1, k)
        /\ \A j \in (k + 1)..Min(Len(typed), Len(target)) :
               SubSeq(typed, 1, j) # SubSeq(target, 1, j)

\* C12. Matcher prefix length: the count onChange gets from lcp is the
\* largest k on which the typed kana and the target agree, between 0 and
\* the length of the shorter one; against the target gakkou (in kana) the
\* whole word gives 4, its first two kana give 2, and ga followed by a
\* full-size tsu gives 1.
MatcherPrefixLength ==
    call.made =>
        /\ call.matched = LargestCommonPrefix(call.kana, call.target)
        /\ call.matched >= 0
        /\ call.matched <= Min(Len(call.kana), Len(call.target))
        /\ call.target = Gakkou =>
            /\ call.kana = Gakkou => call.matched = 4
            /\ call.kana = <<"h:ga", "h:xtu">> => call.matched = 2
            /\ call.kana = <<"h:ga", "h:tu">> => call.matched = 1

MatcherPrefixLengthWitness ==
    /\ call.made
    /\ call.target = Gakkou
    /\ call.kana = <<"h:ga", "h:tu">>
    /\ call.matched = 1

\* The step is an onChange call that completed the current word: it moved
\* on to the next word or ended the run.
WordCompleted == call'.made /\ (wIndex' # wIndex \/ (finished' /\ ~finished))

\* C13. Completion test: an onChange call completes the current word if
\* and only if the converted kana equals the target and the target is not
\* empty; on an empty target no call completes the word and the matched
\* count stays 0.
CompletionTest ==
    [][call'.made =>
        /\ WordCompleted <=>
               (call'.kana = call'.target /\ call'.target # <<>>)
        /\ call'.target = <<>> =>
               (~WordCompleted /\ call'.matched = 0 /\ cIndex' = 0)]_vars

\* The buffer has been emptied on a word whose reading is empty: the kana
\* equals the target and the word is still the current one.
CompletionTestWitness ==
    /\ call.made
    /\ call.target = <<>>
    /\ call.kana = <<>>
    /\ currentTarget = <<>>
    /\ started
    /\ ~finished

\* The code points of a string of code units, as [...str] iterates them: a
\* high surrogate followed by a low surrogate is one code point.
HighSurrogates == {"D82C"}

LowSurrogates == {"DC00", "DC01"}

RECURSIVE codePoints(_)
codePoints(str) ==
    IF str = <<>> THEN <<>>
    ELSE IF /\ Len(str) >= 2
            /\ str[1] \in HighSurrogates
            /\ str[2] \in LowSurrogates
         THEN <<SubSeq(str, 1, 2)>> \o codePoints(SubSeq(str, 3, Len(str)))
         ELSE <<SubSeq(str, 1, 1)>> \o codePoints(Tail(str))

\* C14. The matched count is in code points: it is the number of whole
\* code points on which the typed kana and the target agree, so a common
\* leading surrogate pair counts 1 and a difference inside a pair leaves
\* its first unit uncounted.
MatchedInCodePoints ==
    call.made =>
        call.matched =
            LargestCommonPrefix(codePoints(call.kana), codePoints(call.target))

\* C18 as stated. Per-word state machine: after an onChange call on a
\* non-empty target the session rests only with cIndex below the length of
\* the target; when the matched length reaches it, the word is completed.
MatchingBelowTargetLength ==
    [][(call'.made /\ call'.target # <<>>) =>
        /\ call'.matched = Len(call'.target) => WordCompleted
        /\ ~WordCompleted => cIndex' < Len(call'.target)]_vars

\* C18 as amended. After an onChange call on a non-empty target, either the
\* converted kana equals the target and the word is completed, with cIndex
\* back at 0, or the session rests with cIndex at the matched length, at
\* most the length of the target; it rests with cIndex equal to that
\* length exactly when the kana is the target followed by more characters.
MatchingUpToTargetLength ==
    [][(call'.made /\ call'.target # <<>>) =>
        IF WordCompleted
        THEN call'.kana = call'.target /\ (finished' \/ cIndex' = 0)
        ELSE /\ call'.kana # call'.target
             /\ cIndex' = call'.matched
             /\ cIndex' <= Len(call'.target)
             /\ cIndex' = Len(call'.target) <=>
                    /\ Len(call'.kana) > Len(call'.target)
                    /\ SubSeq(call'.kana, 1, Len(call'.target)) = call'.target]_vars

\* ka followed by a has been put in on the target ka: the whole target is
\* matched and the word is still the current one.
MatchingUpToTargetLengthWitness ==
    /\ call.made
    /\ call.target = Ka
    /\ call.kana = <<"h:ka", "h:a">>
    /\ currentTarget = Ka
    /\ cIndex = Len(Ka)
    /\ ~finished

\* The step is an onChange call whose converted kana is the non-empty
\* target.
Completing ==
    call'.made /\ call'.kana = call'.target /\ call'.target # <<>>

\* C19. Word advancement: an onChange call that completes the current word
\* empties raw and typedKana, sets cIndex to 0 and either ends the run,
\* leaving wIndex, or increases wIndex by exactly 1; wIndex changes in no
\* other way except back to 0.
WordAdvancement ==
    [][/\ Completing =>
           /\ raw' = <<>>
           /\ typedKana' = <<>>
           /\ cIndex' = 0
           /\ IF finished' THEN wIndex' = wIndex ELSE wIndex' = wIndex + 1
       /\ wIndex' # wIndex =>
           \/ Completing /\ wIndex' = wIndex + 1
           \/ wIndex' = 0]_vars

\* The first word has been completed and the second is the current one.
WordAdvancementWitness ==
    /\ call.made
    /\ call.kana = call.target
    /\ call.target # <<>>
    /\ wIndex = 1
    /\ raw = <<>>
    /\ cIndex = 0
    /\ ~finished

\* C20. Input cap: whenever the current target has a length L of at least
\* 1, the stored raw buffer is at most 4 * L long, and the string an
\* onChange call hands to romajiToHiragana is at most 4 * L long for the
\* target of that call.
InputCap ==
    /\ Len(currentTarget) >= 1 =>
           Len(raw) <= INPUT_LIMIT_MULTIPLIER * Len(currentTarget)
    /\ (call.made /\ Len(call.target) >= 1) =>
           Len(call.handed) <= INPUT_LIMIT_MULTIPLIER * Len(call.target)

(***************************************************************************)
(* Further claims about romajiToHiragana.                                  *)
(***************************************************************************)

\* The lower-case form of a string: each capital letter replaced by its
\* small letter (U+0130 by i and the combining dot above).
SmallLetters ==
    [c \in UpperCase |->
        IF c = "A" THEN <<"a">>
        ELSE IF c = "K" THEN <<"k">>
        ELSE IF c = "N" THEN <<"n">>
        ELSE <<"i", "dot">>]

RECURSIVE lowercase(_)
lowercase(str) ==
    IF str = <<>> THEN <<>>
    ELSE (IF Head(str) \in UpperCase THEN SmallLetters[Head(str)]
          ELSE <<Head(str)>>) \o lowercase(Tail(str))

\* C15. Case-insensitivity: the output for an input is the output for its
\* lower-case form, so the case of the keystrokes never changes it.
CaseInsensitive ==
    (pc = "done" /\ input # NullArg) =>
        out = romajiToHiragana(lowercase(input))

\* A syllable typed in capitals.
CaseInsensitiveWitness ==
    /\ pc = "done"
    /\ input = <<"K", "A">>
    /\ out = <<"h:ka">>

\* The scan is at an n that is followed by y and one of the given letters.
AtNY(letters) ==
    /\ InLoop
    /\ At(s, i) = "n"
    /\ AtOrEmpty(s, i + 1) = "y"
    /\ AtOrEmpty(s, i + 2) \in letters

\* What the rest of the scan appends to out first.
NextKana == SubSeq(scan(s, i, prevRaw), 1, 2)

YKana == {"h:ya", "h:yu", "h:yo"}

SmallYKana == {"h:xya", "h:xyu", "h:xyo"}

YOf == [v \in {"a", "u", "o"} |->
           IF v = "a" THEN "h:ya" ELSE IF v = "u" THEN "h:yu" ELSE "h:yo"]

SmallYOf == [v \in {"a", "u", "o"} |->
                IF v = "a" THEN "h:xya" ELSE IF v = "u" THEN "h:xyu" ELSE "h:xyo"]

AliasGroups ==
    {{<<"s", "h", "i">>, <<"s", "i">>},
     {<<"c", "h", "i">>, <<"t", "i">>},
     {<<"t", "s", "u">>, <<"t", "u">>},
     {<<"f", "u">>, <<"h", "u">>},
     {<<"j", "i">>, <<"z", "i">>, <<"d", "i">>}}

\* C17. Alias spellings convert to the same kana: the output for one
\* spelling of a group is the output for every other spelling of it.
AliasesAgree ==
    pc = "done" =>
        \A group \in AliasGroups :
            input \in group =>
                \A other \in group : out = romajiToHiragana(other)

(***************************************************************************)
(* Further claims about the practice session.                              *)
(***************************************************************************)

MaxSpare == 1

RomajiBuffers(str) ==
    UNION {[1..n -> {str[k] : k \in 1..Len(str)} \cup {"n", "'"}] :
              n \in 1..(Len(str) + MaxSpare)}

\* The ways to read a string as one table key followed by another.
KeyPairsOf(str) ==
    {k \in 1..(Len(str) - 1) :
        /\ Truthy(Lookup(SubSeq(str, 1, k)))
        /\ Truthy(Lookup(SubSeq(str, k + 1, Len(str))))}

\* The target spelled by two keys: the kana of the first and of the second.
TargetOfKeys(str, k) ==
    Lookup(SubSeq(str, 1, k)) \o Lookup(SubSeq(str, k + 1, Len(str)))

\* C22. Every word is completable: a target that is the kana of one table
\* key followed by the kana of another is the conversion of some romaji
\* buffer of at most 4 * len(target) characters.
EveryWordCompletable ==
    (pc = "done" /\ input # NullArg) =>
        \A k \in KeyPairsOf(input) :
            \E r \in RomajiBuffers(input) :
                /\ Len(r) <= INPUT_LIMIT_MULTIPLIER * Len(TargetOfKeys(input, k))
                /\ romajiToHiragana(r) = TargetOfKeys(input, k)

\* The romaji spellings of a target among the strings the keyboard of the
\* model can type.
Spellings(target) ==
    {r \in UNION {[1..n -> TypeChars] : n \in 1..MaxText} :
        romajiToHiragana(r) = target}

\* The step is an onChange call with the next prefix of the spelling r: the
\* buffer held the prefix before it, matched as onChange had left it.
TypesNextOf(r) ==
    /\ call'.made
    /\ Len(call'.text) \in 1..Len(r)
    /\ call'.text = SubSeq(r, 1, Len(call'.text))
    /\ raw = SubSeq(r, 1, Len(call'.text) - 1)
    /\ cIndex = lcp(typedKana, currentTarget)

\* C23. Correct typing costs no errors: while a spelling of the current
\* target is typed one character at a time from the empty buffer, no
\* onChange call adds to errors, so the counter is what it was when the
\* word completes.
CorrectTypingCostsNothing ==
    [][\A r \in Spellings(currentTarget) :
          TypesNextOf(r) => errors' = errors]_vars

\* The run has been ended by the timer: nothing of the session has changed
\* since the tick.
EndedByTimer == finished /\ payload.sent /\ ~call.made

\* C24. Timed-run results are current: when the timer tick ends a timed
\* run, the payload is computed from the word index and the matched count
\* the session has at that moment.
TimedResultsCurrent ==
    EndedByTimer =>
        /\ payload.wIndex = wIndex
        /\ payload.cIndex = cIndex
        /\ payload.completedWords \in {wIndex, wIndex + 1}

\* The run has been ended by the onChange call that completed its final
\* word.
EndedByFinalWord == finished /\ payload.sent /\ call.made

\* C28. Completed-word count: when the run ends because its final word was
\* completed, completedWords counts that word too: it is wIndex + 1 for the
\* index of the final word.
CompletedWordsCountsFinalWord ==
    EndedByFinalWord => payload.completedWords = wIndex + 1

\* C25. Match state stays consistent with the target: in every state of a
\* run, cIndex is the common-prefix length of typedKana and the reading of
\* the current word, also after fetched words have replaced the word list.
MatchStateConsistent ==
    ~finished => cIndex = LargestCommonPrefix(typedKana, currentTarget)

\* min(wordTarget, len(words)), an infinite wordTarget being no limit.
RunLength(target, ws) ==
    IF IsFinite(target) THEN Min(target, Len(ws)) ELSE Len(ws)

\* C26. Words-mode run length: in a step of words mode that leaves the word
\* list as it is and starts below the run length min(wordTarget,
\* len(words)), or restarts the run, the run finishes exactly when the step
\* is an onChange call that completes word number min(wordTarget,
\* len(words)); otherwise wIndex stays below that number.
WordsRunLength ==
    [][(/\ testMode' = "words"
        /\ ~finished
        /\ words' = words
        /\ (wIndex < RunLength(wordTarget, words) \/ wIndex' = 0)) =>
          /\ finished' <=>
                 /\ testMode = "words"
                 /\ Completing
                 /\ wIndex + 1 = RunLength(wordTarget, words)
          /\ ~finished' => wIndex' < RunLength(wordTarget', words')]_vars

\* A run of ShortRun words on a longer list has ended with its last word.
WordsRunLengthWitness ==
    /\ finished
    /\ call.made
    /\ testMode = "words"
    /\ wordTarget = ShortRun
    /\ ShortRun < Len(words)
    /\ wIndex + 1 = ShortRun
    /\ call.kana = call.target

\* C27. Stale fetches are discarded: the arrival of a fetch that was
\* abandoned, because source, wordTarget or seed changed or the screen was
\* left, writes nothing to remoteWords; remoteWords changes only in the
\* step in which the fetch started last, still alive, resolves.
StaleFetchesDiscarded ==
    [][/\ stale'.discarded => remoteWords' = remoteWords
       /\ remoteWords' # remoteWords =>
            /\ fetching /\ ~fetching'
            /\ ~finished
            /\ source' = source /\ wordTarget' = wordTarget]_vars

\* The result of an abandoned fetch has arrived while a later fetch is in
\* flight, and remoteWords is still unset.
StaleFetchesDiscardedWitness ==
    /\ stale.discarded
    /\ fetching
    /\ remoteWords = Null

====
